---- MODULE Spec2Model ----
(***************************************************************************)
(* Content approval workflow and asynchronous publishing of the            *)
(* sns-solution backend: content_service.change_status, the publishing     *)
(* service (schedule / publish now / cancel / retry) and the Celery tasks  *)
(* publish_to_platform and scan_scheduled_posts.                           *)
(*                                                                         *)
(* Every database transaction (one API request, or the part of a task      *)
(* between two commits) is one atomic step.                                *)
(***************************************************************************)
EXTENDS Integers, Sequences, FiniteSets, Bags, TLC

\* ---------------------------------------------------------------- bounds
MaxNow == 1          \* the clock runs over 0..MaxNow
MaxApprovals == 2    \* approval records kept in the publishing specification
MaxApprovalsW == 2   \* approval records kept in the workflow specification
MaxLogs == 2         \* publishing_logs rows in the service specification
MaxJobs == 1         \* publishing_logs rows in the specifications with workers
MaxQueue == 2        \* task messages waiting in the broker when a scan runs
MaxFailures == 1     \* failures of the platform call
MaxThreshold == 2    \* failure_threshold of the breaker runs over 1..MaxThreshold
MaxTimeout == 2      \* open_timeout of the breaker runs over 1..MaxTimeout
MaxClock == 4        \* the clock of the breaker specification runs over 0..MaxClock
MaxRetriesArg == 3   \* max_retries of retry_with_backoff runs over 0..MaxRetriesArg
MaxCalls == 2        \* record and reset calls made on the rate limiter
MaxTime == 3600      \* the clock of the rate limiter specification runs over 0..MaxTime

\* ------------------------------------------------------------- constants
max_retries == 3     \* @celery_app.task(max_retries=3)

None == -1           \* a NULL timestamp or user id
NoText == "None"     \* a NULL error_message
NoPost == <<>>       \* a NULL platform_post_id / platform_post_url

ContentIds == {1}
AccountIds == {1, 2}
Workers == {1, 2}
Users == {1, 2, 3, 4}

\* users.role of the four users
RoleOf(u) == <<"operator", "manager", "client", "admin">>[u]

\* platform_accounts.platform of the two accounts
PlatformOf(a) == <<"instagram", "youtube">>[a]

NoMsg == [log |-> 0, content |-> 0, account |-> 0, retries |-> 0]

ContentStatus == {"draft", "review", "client_review", "approved", "published", "rejected"}
PublishingStatus == {"pending", "publishing", "success", "failed", "cancelled"}

VARIABLES
    contents,    \* contents table: id -> row ("absent" before creation)
    approvals,   \* content_approvals table, in insertion order
    logs,        \* publishing_logs table, in insertion order (id = index)
    accounts,    \* ids of the platform_accounts rows that exist
    queue,       \* bag of publish_to_platform messages in the broker
    worker,      \* per Celery worker: position inside publish_to_platform
    posts,       \* bag of log ids: the posts made on the platform
    failures,    \* number of platform calls that have failed so far
    now,         \* the clock
    response,    \* the last API response
    cb,          \* the CircuitBreaker of one platform
    calls,       \* per caller of CircuitBreaker.call: its position and last outcome
    streak,      \* failures the breaker has recorded since the last success it recorded
    rb,          \* the run of retry_with_backoff
    events,      \* ids of the logs whose publish_result notification reached Redis
    rl,          \* RateLimiter._counters: platform -> bag of timestamps
    checked,     \* what the last RateLimiter.check returned, and for which platform
    history      \* history variable: the record and reset calls made, in order

\* the state of app.integrations.resilience
limiter == <<rl, checked, history>>
resilience == <<cb, calls, streak, rb, limiter>>

vars == <<contents, approvals, logs, accounts, queue, worker, posts, failures, now, response,
          cb, calls, streak, rb, events, rl, checked, history>>

\* ------------------------------------------------------ approval workflow

\* TRANSITIONS.get(role, {}).get(from_status, set())
Transitions(role, from) ==
    CASE role = "operator" /\ from = "draft" -> {"review"}
      [] role = "manager" /\ from = "review" -> {"client_review", "rejected"}
      [] role = "manager" /\ from = "client_review" -> {"rejected"}
      [] role = "manager" /\ from = "rejected" -> {"draft"}
      [] role = "client" /\ from = "client_review" -> {"approved", "rejected"}
      [] role = "admin" /\ from = "review" -> {"client_review", "rejected"}
      [] role = "admin" /\ from = "client_review" -> {"rejected"}
      [] role = "admin" /\ from = "rejected" -> {"draft"}
      [] role = "admin" /\ from = "draft" -> {"review"}
      [] OTHER -> {}

\* variant: the override is granted on the flag alone, whatever the role
UrgentOverride_AnyRole(role, is_urgent) == is_urgent

\* variant: the override is granted to the admin only
UrgentOverride_AdminOnly(role, is_urgent) == is_urgent /\ role = "admin"

\* the early return of validate_transition
UrgentOverride(role, is_urgent) == is_urgent /\ role \in {"manager", "admin"}

\* validate_transition: TRUE when it returns, FALSE when it raises 400
validate_transition(role, from, to, is_urgent) ==
    \/ UrgentOverride(role, is_urgent)
    \/ to \in Transitions(role, from)

\* variant: the approver is not recorded
ApplyStatus_NoApprover(row, to, user, t) ==
    IF to = "approved"
    THEN [row EXCEPT !.status = to, !.approved_at = t]
    ELSE [row EXCEPT !.status = to]

\* change_status: the new contents row
ApplyStatus(row, to, user, t) ==
    IF to = "approved"
    THEN [row EXCEPT !.status = to, !.approved_at = t, !.approved_by = user]
    ELSE [row EXCEPT !.status = to]

\* change_status: the ContentApproval row
ApprovalRecord(c, from, to, user, is_urgent) ==
    [content_id |-> c, from_status |-> from, to_status |-> to,
     reviewer_id |-> user, is_urgent |-> is_urgent]

AbsentRow == [status |-> "absent", approved_at |-> None, approved_by |-> None,
              published_at |-> None, created_by |-> None]

\* an API response: the endpoint and the error it raised ("" when it succeeded)
Resp(op, code, err) == [op |-> op, error |-> err]

\* POST /contents
CreateContent(c, u) ==
    /\ contents[c].status = "absent"
    /\ RoleOf(u) \in {"admin", "manager", "operator"}
    /\ contents' = [contents EXCEPT ![c] = [AbsentRow EXCEPT !.status = "draft", !.created_by = u]]
    /\ response' = Resp("create_content", 201, "")
    /\ UNCHANGED <<approvals, logs, accounts, queue, worker, posts, failures, now, events, resilience>>

\* DELETE /contents/{id}: only a draft is deleted; the rows that refer to the
\* content stay (no cascade, foreign keys not enforced as in the test database)
DeleteContent(c, u) ==
    /\ RoleOf(u) \in {"admin", "manager", "operator"}
    /\ UNCHANGED <<approvals, logs, accounts, queue, worker, posts, failures, now, events, resilience>>
    /\ IF contents[c].status = "absent"
       THEN /\ response' = Resp("delete_content", 404, "NotFound")
            /\ UNCHANGED contents
       ELSE IF contents[c].status # "draft"
       THEN /\ response' = Resp("delete_content", 400, "NotDraft")
            /\ UNCHANGED contents
       ELSE /\ contents' = [contents EXCEPT ![c] = AbsentRow]
            /\ response' = Resp("delete_content", 200, "")

\* PATCH /contents/{id}/status
RequestTransition(c, u, to, is_urgent) ==
    IF contents[c].status = "absent"
    THEN /\ response' = Resp("change_status", 404, "NotFound")
         /\ UNCHANGED <<contents, approvals, logs, accounts, queue, worker, posts, failures, now, events, resilience>>
    ELSE IF ~validate_transition(RoleOf(u), contents[c].status, to, is_urgent)
    THEN /\ response' = Resp("change_status", 400, "InvalidTransition")
         /\ UNCHANGED <<contents, approvals, logs, accounts, queue, worker, posts, failures, now, events, resilience>>
    ELSE /\ contents' = [contents EXCEPT ![c] = ApplyStatus(contents[c], to, u, now)]
         /\ approvals' = Append(approvals,
                ApprovalRecord(c, contents[c].status, to, u, is_urgent))
         /\ response' = Resp("change_status", 200, "")
         /\ UNCHANGED <<logs, accounts, queue, worker, posts, failures, now, events, resilience>>

\* ------------------------------------------------------ publishing service

\* PublishingLog(content_id=..., platform_account_id=..., status=..., scheduled_at=...)
NewLog(c, a, status, sched) ==
    [content_id |-> c, platform_account_id |-> a, status |-> status,
     platform_post_id |-> NoPost, platform_post_url |-> NoPost,
     error_message |-> NoText, retry_count |-> 0,
     scheduled_at |-> sched, published_at |-> None]

\* variant: the loop stops after the first account id
NewLogs_FirstOnly(c, ids, status, sched) ==
    [i \in 1..(IF Len(ids) > 0 THEN 1 ELSE 0) |-> NewLog(c, ids[i], status, sched)]

\* the loop over platform_account_ids: one row per list element, in order
NewLogs(c, ids, status, sched) ==
    [i \in 1..Len(ids) |-> NewLog(c, ids[i], status, sched)]

\* variant: published content passes the guard as well
IsApproved_OrPublished(row) == row.status \in {"approved", "published"}

\* the guard shared by schedule_publish and publish_now
IsApproved(row) == row.status = "approved"

\* POST /publishing/schedule
Schedule(c, ids, sched) ==
    /\ UNCHANGED <<contents, approvals, accounts, queue, worker, posts, failures, now, events, resilience>>
    /\ IF contents[c].status = "absent"
       THEN /\ response' = Resp("schedule_publish", 404, "NotFound")
            /\ UNCHANGED logs
       ELSE IF ~IsApproved(contents[c])
       THEN /\ response' = Resp("schedule_publish", 400, "NotApproved")
            /\ UNCHANGED logs
       ELSE /\ logs' = logs \o NewLogs(c, ids, "pending", sched)
            /\ response' = Resp("schedule_publish", 201, "")

\* POST /publishing/now
PublishNow(c, ids) ==
    /\ UNCHANGED <<contents, approvals, accounts, queue, worker, posts, failures, now, events, resilience>>
    /\ IF contents[c].status = "absent"
       THEN /\ response' = Resp("publish_now", 404, "NotFound")
            /\ UNCHANGED logs
       ELSE IF ~IsApproved(contents[c])
       THEN /\ response' = Resp("publish_now", 400, "NotApproved")
            /\ UNCHANGED logs
       ELSE /\ logs' = logs \o NewLogs(c, ids, "publishing", None)
            /\ response' = Resp("publish_now", 201, "")

\* variant: a failed log can be cancelled as well
IsPending_OrFailed(row) == row.status \in {"pending", "failed"}

\* the guard of cancel_publish
IsPending(row) == row.status = "pending"

\* DELETE /publishing/{id}/cancel
Cancel(l) ==
    /\ UNCHANGED <<contents, approvals, accounts, queue, worker, posts, failures, now, events, resilience>>
    /\ IF l > Len(logs)
       THEN /\ response' = Resp("cancel_publish", 404, "NotFound")
            /\ UNCHANGED logs
       ELSE IF ~IsPending(logs[l])
       THEN /\ response' = Resp("cancel_publish", 400, "InvalidState")
            /\ UNCHANGED logs
       ELSE /\ logs' = [logs EXCEPT ![l].status = "cancelled"]
            /\ response' = Resp("cancel_publish", 200, "")

\* variant: the error message of the failed attempt is kept
MarkRetrying_KeepError(row) ==
    [row EXCEPT !.status = "publishing", !.retry_count = @ + 1]

\* the three assignments of retry_publish
MarkRetrying(row) ==
    [row EXCEPT !.status = "publishing", !.retry_count = @ + 1,
                !.error_message = NoText]

\* POST /publishing/{id}/retry
Retry(l) ==
    /\ UNCHANGED <<contents, approvals, accounts, queue, worker, posts, failures, now, events, resilience>>
    /\ IF l > Len(logs)
       THEN /\ response' = Resp("retry_publish", 404, "NotFound")
            /\ UNCHANGED logs
       ELSE IF logs[l].status # "failed"
       THEN /\ response' = Resp("retry_publish", 400, "InvalidState")
            /\ UNCHANGED logs
       ELSE /\ logs' = [logs EXCEPT ![l] = MarkRetrying(@)]
            /\ response' = Resp("retry_publish", 200, "")

\* DELETE /clients/{id}/accounts/{accountId}
DeletePlatformAccount(a) ==
    /\ UNCHANGED <<contents, approvals, logs, queue, worker, posts, failures, now, events, resilience>>
    /\ IF a \notin accounts
       THEN /\ response' = Resp("remove_account", 404, "NotFound")
            /\ UNCHANGED accounts
       ELSE /\ accounts' = accounts \ {a}
            /\ response' = Resp("remove_account", 200, "")

\* -------------------------------------------------------------- the tasks

\* the arguments of publish_to_platform.delay plus self.request.retries
Message(l, retries) ==
    [log |-> l, content |-> logs[l].content_id,
     account |-> logs[l].platform_account_id, retries |-> retries]

\* variant: the query without its scheduled_at condition
DueLogs_AllPending == {l \in 1..Len(logs) : logs[l].status = "pending"}

\* the query of scan_scheduled_posts (a NULL scheduled_at never compares <= now)
DueLogs ==
    {l \in 1..Len(logs) : /\ logs[l].status = "pending"
                          /\ logs[l].scheduled_at # None
                          /\ logs[l].scheduled_at <= now}

\* scan_scheduled_posts: one publish_to_platform.delay per due log
ScanScheduledPosts ==
    /\ queue' = queue (+) SetToBag({Message(l, 0) : l \in DueLogs})
    /\ UNCHANGED <<contents, approvals, logs, accounts, worker, posts, failures, now, response, events, resilience>>

\* the mock platform_post_id / platform_post_url of a log
PostId(a, l) == <<"mock", PlatformOf(a), l>>
PostUrl(a, l) == <<"https", PlatformOf(a), PostId(a, l)>>

\* variant: only the content is looked up
Missing_ContentOnly(m) == contents[m.content].status = "absent"

\* "if not content or not account" of publish_to_platform
Missing(m) == contents[m.content].status = "absent" \/ m.account \notin accounts

\* the UPDATE that marks the log as publishing
MarkPublishing(row) == [row EXCEPT !.status = "publishing"]

\* the UPDATE of the log on success
MarkSuccess(row, a, l, t) ==
    [row EXCEPT !.status = "success", !.platform_post_id = PostId(a, l),
                !.platform_post_url = PostUrl(a, l), !.published_at = t]

\* variant: the content keeps its status, only published_at is written
MarkPublished_TimeOnly(row, t) == [row EXCEPT !.published_at = t]

\* the UPDATE of the content on success
MarkPublished(row, t) == [row EXCEPT !.published_at = t, !.status = "published"]

\* the UPDATE of the log in the except branch
MarkFailed(row, msg) ==
    [row EXCEPT !.status = "failed", !.error_message = msg, !.retry_count = @ + 1]

\* publish_to_platform, first transaction: load log, content and account,
\* then either fail the log or mark it as publishing, and commit
ExecuteStart(w, m) ==
    /\ worker[w].pc = "idle"
    /\ BagIn(m, queue)
    /\ queue' = queue (-) SetToBag({m})
    /\ IF Missing(m)
       THEN /\ logs' = [logs EXCEPT ![m.log].status = "failed",
                                    ![m.log].error_message = "Content or account not found"]
            /\ UNCHANGED worker
       ELSE /\ logs' = [logs EXCEPT ![m.log] = MarkPublishing(@)]
            /\ worker' = [worker EXCEPT ![w] = [pc |-> "publishing", msg |-> m]]
    /\ UNCHANGED <<contents, approvals, accounts, posts, failures, now, response, events, resilience>>

\* variant: self.retry sends the task again whatever retries is
RetryMessages_Always(m) == SetToBag({[m EXCEPT !.retries = @ + 1]})

\* self.retry(exc=exc): the task is sent again while retries < max_retries
RetryMessages(m) ==
    IF m.retries < max_retries
    THEN SetToBag({[m EXCEPT !.retries = @ + 1]})
    ELSE EmptyBag

\* variant: the exception of a failed emit leaves the inner try
EmitRaises_Unhandled(emit_ok) == ~emit_ok

\* the inner "except Exception: logger.warning(...)" around the Redis publish:
\* no exception of the emit leaves it
EmitRaises(emit_ok) == FALSE

\* publish_to_platform, second transaction when the try block completes:
\* the platform post is made, log and content are updated and committed;
\* then the notification is pushed (emit_ok: Redis took it).  An exception
\* that left the inner try would reach the outer except branch: the log
\* marked failed and self.retry
ExecuteSuccess(w, emit_ok) ==
    /\ worker[w].pc = "publishing"
    /\ LET m == worker[w].msg IN
         /\ posts' = posts (+) SetToBag({m.log})
         /\ contents' = IF contents[m.content].status = "absent"
                        THEN contents    \* the UPDATE matches no row
                        ELSE [contents EXCEPT ![m.content] = MarkPublished(@, now)]
         /\ events' = IF emit_ok THEN events \cup {m.log} ELSE events
         /\ IF EmitRaises(emit_ok)
            THEN /\ logs' = [logs EXCEPT ![m.log] =
                                MarkFailed(MarkSuccess(@, m.account, m.log, now), "emit")]
                 /\ queue' = queue (+) RetryMessages(m)
            ELSE /\ logs' = [logs EXCEPT ![m.log] = MarkSuccess(@, m.account, m.log, now)]
                 /\ UNCHANGED queue
    /\ worker' = [worker EXCEPT ![w] = [pc |-> "idle", msg |-> NoMsg]]
    /\ UNCHANGED <<approvals, accounts, failures, now, response, resilience>>

\* str(exc) of the exceptions the try block can raise: a permanent error of
\* the platform and a transient one
Errors == {"400 Bad Request", "503 Service Unavailable"}

\* publish_to_platform, second transaction when the try block raises exc:
\* rollback, mark the log failed, commit, then self.retry; "except Exception"
\* takes every exception alike
ExecuteFailure(w, exc) ==
    /\ worker[w].pc = "publishing"
    /\ LET m == worker[w].msg IN
         /\ logs' = [logs EXCEPT ![m.log] = MarkFailed(@, exc)]
         /\ queue' = queue (+) RetryMessages(m)
    /\ worker' = [worker EXCEPT ![w] = [pc |-> "idle", msg |-> NoMsg]]
    /\ failures' = failures + 1
    /\ UNCHANGED <<contents, approvals, accounts, posts, now, response, events, resilience>>

\* ------------------------------------------------------------- the clock
Tick ==
    /\ now < MaxNow
    /\ now' = now + 1
    /\ UNCHANGED <<contents, approvals, logs, accounts, queue, worker, posts, failures, response, events, resilience>>

\* ------------------------------------------------------------ resilience

\* the variables of the publishing side
publishing == <<contents, approvals, logs, accounts, queue, worker, posts, failures, response, events>>

\* the coroutines that may be inside CircuitBreaker.call at the same time
Callers == {1, 2}

\* CircuitBreaker.__init__
CircuitBreaker(failure_threshold, open_timeout) ==
    [failure_threshold |-> failure_threshold, open_timeout |-> open_timeout,
     state |-> "closed", failure_count |-> 0, last_failure_time |-> 0]

\* variant: an open breaker lets every call through
ShouldAllow_IgnoreTimeout(b, t) == b.state \in {"closed", "open", "half_open"}

\* _should_allow: the value it returns at time t
ShouldAllow(b, t) ==
    \/ b.state = "closed"
    \/ b.state = "open" /\ t - b.last_failure_time >= b.open_timeout
    \/ b.state = "half_open"

\* _should_allow: the breaker it leaves (OPEN -> HALF_OPEN once the timeout has elapsed)
AfterShouldAllow(b, t) ==
    IF b.state = "open" /\ t - b.last_failure_time >= b.open_timeout
    THEN [b EXCEPT !.state = "half_open"]
    ELSE b

\* record_success
record_success(b) ==
    [b EXCEPT !.state = IF @ = "half_open" THEN "closed" ELSE @,
              !.failure_count = 0]

\* variant: the breaker opens one failure late
record_failure_Late(b, t) ==
    [b EXCEPT !.failure_count = @ + 1,
              !.last_failure_time = t,
              !.state = IF @ = "half_open" THEN "open"
                        ELSE IF b.failure_count + 1 > b.failure_threshold THEN "open"
                        ELSE @]

\* record_failure at time t
record_failure(b, t) ==
    [b EXCEPT !.failure_count = @ + 1,
              !.last_failure_time = t,
              !.state = IF @ = "half_open" THEN "open"
                        ELSE IF b.failure_count + 1 >= b.failure_threshold THEN "open"
                        ELSE @]

\* a caller that is not inside call: how its last call ended and when, and
\* whether that call was the trial
IdleCall(outcome, trial, ended) ==
    [pc |-> "idle", outcome |-> outcome, trial |-> trial, ended |-> ended]

\* call, up to the await: _should_allow, then either CircuitOpenError or the
\* wrapped function is started; trial marks the call whose _should_allow took
\* the breaker from OPEN to HALF_OPEN
CallBegin(k) ==
    /\ calls[k].pc = "idle"
    /\ IF ShouldAllow(cb, now)
       THEN /\ cb' = AfterShouldAllow(cb, now)
            /\ calls' = [calls EXCEPT ![k] = [pc |-> "running", outcome |-> "none",
                                              trial |-> cb.state = "open",
                                              ended |-> None]]
       ELSE /\ cb' = cb
            /\ calls' = [calls EXCEPT ![k] = IdleCall("CircuitOpenError", FALSE, now)]
    /\ UNCHANGED <<publishing, now, streak, rb, limiter>>

\* call, after the await, when the wrapped function returned
CallReturn(k) ==
    /\ calls[k].pc = "running"
    /\ cb' = record_success(cb)
    /\ calls' = [calls EXCEPT ![k] = IdleCall("result", @.trial, now)]
    /\ streak' = 0
    /\ UNCHANGED <<publishing, now, rb, limiter>>

\* call, after the await, when the wrapped function raised
CallRaise(k) ==
    /\ calls[k].pc = "running"
    /\ cb' = record_failure(cb, now)
    /\ calls' = [calls EXCEPT ![k] = IdleCall("exc", @.trial, now)]
    /\ streak' = streak + 1
    /\ UNCHANGED <<publishing, now, rb, limiter>>

\* time.time() moves on
Elapse ==
    /\ now < MaxClock
    /\ now' = now + 1
    /\ UNCHANGED <<publishing, resilience>>

RETRYABLE_STATUS_CODES == {429, 500, 502, 503, 504}

\* what one invocation of the wrapped function does: it returns, it raises
\* httpx.HTTPStatusError with a status code, or it raises another exception
NoExc == [exc |-> "none", status_code |-> 0]
HTTPStatusError(code) == [exc |-> "HTTPStatusError", status_code |-> code]
ConnectError == [exc |-> "ConnectError", status_code |-> 0]
Outcomes ==
    {NoExc, ConnectError}
    \cup {HTTPStatusError(code) : code \in RETRYABLE_STATUS_CODES \cup {400, 404}}

\* no run of retry_with_backoff yet
NoRun == [pc |-> "idle", max_retries |-> 0, attempt |-> 0, invoked |-> 0,
          last_exc |-> NoExc, slept |-> <<>>, returned |-> None, raised |-> NoExc]

\* backoff_base * (backoff_factor ** attempt) with the defaults 1.0 and 2.0
Delay(attempt) == 2 ^ attempt

\* variant: one more pass than max_retries allows
CanRetry_OneMore(run) == run.attempt <= run.max_retries

\* "if attempt < max_retries": another pass follows
CanRetry(run) == run.attempt < run.max_retries

\* retry_with_backoff(func, max_retries=n) is called
RetryWithBackoff(n) ==
    /\ rb.pc = "idle"
    /\ rb' = [NoRun EXCEPT !.pc = "calling", !.max_retries = n]
    /\ UNCHANGED <<publishing, now, cb, calls, streak, limiter>>

\* one pass of the loop body: func is awaited and does o; the value func
\* returns in attempt i is written i
Invoke(o) ==
    /\ rb.pc = "calling"
    /\ rb' = IF o = NoExc
             THEN [rb EXCEPT !.invoked = @ + 1, !.pc = "returned",
                             !.returned = rb.attempt]
             ELSE IF o.exc # "HTTPStatusError"
             THEN [rb EXCEPT !.invoked = @ + 1, !.pc = "raised", !.raised = o]
             ELSE IF o.status_code \notin RETRYABLE_STATUS_CODES
             THEN [rb EXCEPT !.invoked = @ + 1, !.last_exc = o,
                             !.pc = "raised", !.raised = o]
             ELSE IF CanRetry(rb)
             THEN [rb EXCEPT !.invoked = @ + 1, !.last_exc = o,
                             !.pc = "sleeping",
                             !.slept = Append(@, Delay(rb.attempt))]
             ELSE [rb EXCEPT !.invoked = @ + 1, !.last_exc = o,
                             !.pc = "raised", !.raised = o]
    /\ UNCHANGED <<publishing, now, cb, calls, streak, limiter>>

\* asyncio.sleep(delay) is over: the next pass of the loop
Wake ==
    /\ rb.pc = "sleeping"
    /\ rb' = [rb EXCEPT !.pc = "calling", !.attempt = @ + 1]
    /\ UNCHANGED <<publishing, now, cb, calls, streak, limiter>>

\* ------------------------------------------------------ the rate limiter

\* the platforms of PLATFORM_LIMITS and one that is not configured
Platforms == {"instagram", "facebook", "youtube", "tiktok"}

\* requests per hour
PLATFORM_LIMITS ==
    [p \in {"instagram", "facebook", "youtube"} |-> IF p = "youtube" THEN 10000 ELSE 200]

\* PLATFORM_LIMITS.get(platform, 1000)
Limit(p) == IF p \in DOMAIN PLATFORM_LIMITS THEN PLATFORM_LIMITS[p] ELSE 1000

\* the window of check, in seconds
window == 3600

\* variant: a timestamp exactly one window old is kept
Prune_Inclusive(c, t) ==
    LET keep == {x \in BagToSet(c) : t - x <= window}
    IN  [x \in keep |-> c[x]]

\* [t for t in counters if now - t < window]
Prune(c, t) ==
    LET keep == {x \in BagToSet(c) : t - x < window}
    IN  [x \in keep |-> c[x]]

\* RateLimiter(): no timestamps (a platform without a list counts as an empty one)
RateLimiter == [p \in Platforms |-> EmptyBag]

NoCheck == [platform |-> "", allowed |-> TRUE]

\* check(platform): prune, then compare the count with the limit; the
\* warnings write to the log only
check(p) ==
    /\ rl' = [rl EXCEPT ![p] = Prune(@, now)]
    /\ checked' = [platform |-> p,
                   allowed |-> ~(BagCardinality(Prune(rl[p], now)) >= Limit(p))]
    /\ UNCHANGED <<publishing, now, cb, calls, streak, rb, history>>

\* the sizes of the bursts of record calls the specifications draw
Bursts(p) == {1, Limit(p) - 1}

\* n calls of record(platform) within the same second: each appends now
RecordCalls(p, n) ==
    /\ rl' = [rl EXCEPT ![p] = @ (+) [x \in {now} |-> n]]
    /\ history' = Append(history, [op |-> "record", platform |-> p, at |-> now, n |-> n])
    /\ UNCHANGED <<publishing, now, cb, calls, streak, rb, checked>>

\* reset(platform): the list of the platform is dropped
reset(p) ==
    /\ rl' = [rl EXCEPT ![p] = EmptyBag]
    /\ history' = Append(history, [op |-> "reset", platform |-> p, at |-> now, n |-> 0])
    /\ UNCHANGED <<publishing, now, cb, calls, streak, rb, checked>>

\* time.time() moves on by about half a window
Delays == {1799, 1800}

Wait(d) ==
    /\ now + d <= MaxTime
    /\ now' = now + d
    /\ UNCHANGED <<publishing, resilience>>

\* the module-level objects of resilience.py after import: the breaker of a
\* platform with the default parameters, nobody inside call, no retry running,
\* an empty rate limiter
Imported ==
    /\ cb = CircuitBreaker(5, 30)
    /\ calls = [k \in Callers |-> IdleCall("none", FALSE, None)]
    /\ streak = 0
    /\ rb = NoRun
    /\ rl = RateLimiter
    /\ checked = NoCheck
    /\ history = <<>>

Init ==
    /\ Imported
    /\ contents = [c \in ContentIds |-> AbsentRow]
    /\ approvals = <<>>
    /\ logs = <<>>
    /\ accounts = AccountIds
    /\ queue = EmptyBag
    /\ worker = [w \in Workers |-> [pc |-> "idle", msg |-> NoMsg]]
    /\ posts = EmptyBag
    /\ failures = 0
    /\ now = 0
    /\ response = Resp("", 0, "")
    /\ events = {}

Create == \E c \in ContentIds, u \in Users : CreateContent(c, u)

TransitionW ==
    \E c \in ContentIds, u \in Users, to \in ContentStatus, g \in BOOLEAN :
       /\ Len(approvals) < MaxApprovalsW
       /\ RequestTransition(c, u, to, g)

\* the approval workflow alone, from an empty contents table
NextW ==
    \/ Create
    \/ TransitionW
    \/ Tick

SpecW == Init /\ [][NextW]_vars
\* every list of at most max account ids a request can carry
AccountLists(max) == UNION {[1..n -> AccountIds] : n \in 0..max}

\* every log id a request can name when at most max logs exist: one is unknown
LogIds(max) == 1..(max + 1)

\* every message the broker can hold when at most max logs exist
Messages(max) == [log : 1..max, content : ContentIds, account : AccountIds,
                  retries : 0..max_retries]

\* The specifications of the publishing side start where the workflow has
\* brought a content item to approved: created by the operator, then approved
\* by the manager with the urgent override at time 0 (the state ApprovedByOverride
\* below, which SpecW reaches).
Approved ==
    /\ contents = [c \in ContentIds |->
           ApplyStatus([AbsentRow EXCEPT !.status = "draft", !.created_by = 1],
                       "approved", 2, 0)]
    /\ approvals = <<ApprovalRecord(1, "draft", "approved", 2, TRUE)>>
    /\ logs = <<>>
    /\ accounts = AccountIds
    /\ queue = EmptyBag
    /\ worker = [w \in Workers |-> [pc |-> "idle", msg |-> NoMsg]]
    /\ posts = EmptyBag
    /\ failures = 0
    /\ now = 0
    /\ response = Resp("change_status", 200, "")
    /\ events = {}

InitP == Imported /\ Approved

\* the requests and steps the specifications draw, over at most max logs
Schedules(max) ==
    \E c \in ContentIds, ids \in AccountLists(max), sched \in 0..MaxNow :
       /\ Len(logs) + Len(ids) <= max
       /\ Schedule(c, ids, sched)

PublishNows(max) ==
    \E c \in ContentIds, ids \in AccountLists(max) :
       /\ Len(logs) + Len(ids) <= max
       /\ PublishNow(c, ids)

Cancels(max) == \E l \in LogIds(max) : Cancel(l)

Retries(max) == \E l \in LogIds(max) : Retry(l)

Transition ==
    \E c \in ContentIds, u \in Users, to \in ContentStatus, g \in BOOLEAN :
       /\ Len(approvals) < MaxApprovals
       /\ RequestTransition(c, u, to, g)

Scan ==
    /\ BagCardinality(queue) + Cardinality(DueLogs) <= MaxQueue
    /\ ScanScheduledPosts

Start == \E w \in Workers, m \in Messages(MaxJobs) : ExecuteStart(w, m)

Succeed == \E w \in Workers, e \in BOOLEAN : ExecuteSuccess(w, e)

Fail == \E w \in Workers, exc \in Errors : failures < MaxFailures /\ ExecuteFailure(w, exc)

\* the API of the publishing service, no worker running
NextS ==
    \/ Transition
    \/ Schedules(MaxLogs)
    \/ PublishNows(MaxLogs)
    \/ Cancels(MaxLogs)
    \/ Retries(MaxLogs)
    \/ Tick

SpecS == InitP /\ [][NextS]_vars

\* scheduling, the periodic scan and the workers
NextE ==
    \/ Schedules(MaxJobs)
    \/ Scan
    \/ Start
    \/ Succeed
    \/ Fail
    \/ Tick

SpecE == InitP /\ [][NextE]_vars

\* scheduling, cancelling and retrying against the scan and the workers
NextC ==
    \/ Schedules(MaxJobs)
    \/ Cancels(MaxJobs)
    \/ Retries(MaxJobs)
    \/ Scan
    \/ Start
    \/ Succeed
    \/ Fail
    \/ Tick

SpecC == InitP /\ [][NextC]_vars

\* the publishing service and the tasks under the scheduling of Celery: beat
\* sends the periodic scan, a free worker takes a waiting message, and a task
\* that has started runs to its end
NextL ==
    \/ Schedules(MaxJobs)
    \/ PublishNows(MaxJobs)
    \/ Retries(MaxJobs)
    \/ Scan
    \/ Start
    \/ Succeed
    \/ Fail
    \/ Tick

SpecL ==
    /\ InitP
    /\ [][NextL]_vars
    /\ WF_vars(Scan)
    /\ WF_vars(Start)
    /\ WF_vars(Succeed \/ Fail)

\* the platform is down: every platform call raises the transient error
FailTransient == \E w \in Workers : ExecuteFailure(w, "503 Service Unavailable")

\* scheduling, the scan and the workers while the platform is down
NextD ==
    \/ Schedules(MaxJobs)
    \/ Scan
    \/ Start
    \/ FailTransient
    \/ Tick

SpecD == InitP /\ [][NextD]_vars

\* the rate limiter alone: its three methods and the clock
NextT ==
    \/ \E p \in Platforms : check(p)
    \/ \E p \in Platforms : \E n \in Bursts(p) : Len(history) < MaxCalls /\ RecordCalls(p, n)
    \/ \E p \in Platforms : Len(history) < MaxCalls /\ reset(p)
    \/ \E d \in Delays : Wait(d)

SpecT == Init /\ [][NextT]_vars

\* b after n calls of record_failure at time t
RECURSIVE Failed(_, _, _)
Failed(b, t, n) == IF n = 0 THEN b ELSE record_failure(Failed(b, t, n - 1), t)

\* The guards as the publishing task meets them: the content is approved, and
\* other users of the module-level objects may have used them up at time 0.
\* cb is circuit_breakers["instagram"], either untouched or after five calls
\* by caller 1 that raised (failure_threshold = 5: open); the rate limiter is
\* either empty or holds limit record calls for the platform of an account.
InitG ==
    /\ Approved
    /\ rb = NoRun
    /\ \E opened \in BOOLEAN :
          /\ cb = Failed(CircuitBreaker(5, 30), 0, IF opened THEN 5 ELSE 0)
          /\ streak = (IF opened THEN 5 ELSE 0)
          /\ calls = [k \in Callers |-> IF opened /\ k = 1
                                         THEN IdleCall("exc", FALSE, 0)
                                         ELSE IdleCall("none", FALSE, None)]
    /\ checked = NoCheck
    /\ \E used \in {""} \cup {PlatformOf(a) : a \in AccountIds} :
          /\ rl = [p \in Platforms |-> IF p = used THEN [x \in {0} |-> Limit(p)]
                                        ELSE EmptyBag]
          /\ history = IF used = ""
                       THEN <<>>
                       ELSE <<[op |-> "record", platform |-> used, at |-> 0, n |-> Limit(used) - 1],
                              [op |-> "record", platform |-> used, at |-> 0, n |-> 1]>>

\* scheduling, the scan and the workers, the platform answering every call
NextG ==
    \/ Schedules(MaxJobs)
    \/ Scan
    \/ Start
    \/ Succeed
    \/ Tick

SpecG == InitG /\ [][NextG]_vars

\* a breaker constructed with a threshold and a timeout, and its callers
InitB ==
    /\ contents = [c \in ContentIds |-> AbsentRow]
    /\ approvals = <<>>
    /\ logs = <<>>
    /\ accounts = AccountIds
    /\ queue = EmptyBag
    /\ worker = [w \in Workers |-> [pc |-> "idle", msg |-> NoMsg]]
    /\ posts = EmptyBag
    /\ failures = 0
    /\ now = 0
    /\ response = Resp("", 0, "")
    /\ events = {}
    /\ \E failure_threshold \in 1..MaxThreshold, open_timeout \in 1..MaxTimeout :
          cb = CircuitBreaker(failure_threshold, open_timeout)
    /\ calls = [k \in Callers |-> IdleCall("none", FALSE, None)]
    /\ streak = 0
    /\ rb = NoRun
    /\ rl = RateLimiter
    /\ checked = NoCheck
    /\ history = <<>>

NextB ==
    \/ \E k \in Callers : CallBegin(k)
    \/ \E k \in Callers : CallReturn(k)
    \/ \E k \in Callers : CallRaise(k)
    \/ Elapse

SpecB == InitB /\ [][NextB]_vars

\* one run of retry_with_backoff
NextR ==
    \/ \E n \in 0..MaxRetriesArg : RetryWithBackoff(n)
    \/ \E o \in Outcomes : Invoke(o)
    \/ Wake

SpecR == Init /\ [][NextR]_vars

\* everything together
Next ==
    \/ Transition
    \/ Schedules(MaxJobs)
    \/ PublishNows(MaxJobs)
    \/ Cancels(MaxJobs)
    \/ Retries(MaxJobs)
    \/ \E a \in AccountIds : DeletePlatformAccount(a)
    \/ \E c \in ContentIds, u \in Users : DeleteContent(c, u)
    \/ Scan
    \/ Start
    \/ Succeed
    \/ Fail
    \/ Tick

Spec == InitP /\ [][Next]_vars
\* ===================================================================
\* Properties of the approval workflow (checked under SpecW)
\* ===================================================================

\* the transition table as the documentation gives it:
\* <<role, from_status, to_status>>, admin being manager plus operator
ManagerTable ==
    {<<"review", "client_review">>, <<"review", "rejected">>,
     <<"client_review", "rejected">>, <<"rejected", "draft">>}
OperatorTable == {<<"draft", "review">>}
ClientTable == {<<"client_review", "approved">>, <<"client_review", "rejected">>}
TransitionTable ==
    {<<"operator", e[1], e[2]>> : e \in OperatorTable}
    \cup {<<"manager", e[1], e[2]>> : e \in ManagerTable}
    \cup {<<"client", e[1], e[2]>> : e \in ClientTable}
    \cup {<<"admin", e[1], e[2]>> : e \in ManagerTable \cup OperatorTable}

OkResponse(op) == Resp(op, 200, "")

\* C1: a transition that is not in the table entry of (role, current status),
\* requested without an urgent override the role is eligible for (is_urgent
\* false, or true with role operator or client), fails with InvalidTransition,
\* leaves the content row (status, approved_at, approved_by) as it was and
\* appends no approval record.
C1_InvalidTransitionRejected ==
    [][\A c \in ContentIds, u \in Users, to \in ContentStatus, g \in BOOLEAN :
         ( /\ RequestTransition(c, u, to, g)
           /\ contents[c].status # "absent"
           /\ <<RoleOf(u), contents[c].status, to>> \notin TransitionTable
           /\ (~g \/ RoleOf(u) \in {"operator", "client"}) )
         => /\ response' = Resp("change_status", 400, "InvalidTransition")
            /\ contents'[c].status = contents[c].status
            /\ contents'[c].approved_at = contents[c].approved_at
            /\ contents'[c].approved_by = contents[c].approved_by
            /\ approvals' = approvals]_vars

\* a rejected request has been answered while the content sits in review
\* with the single record of the step that brought it there
C1_Witness ==
    /\ response = Resp("change_status", 400, "InvalidTransition")
    /\ contents[1].status = "review"
    /\ Len(approvals) = 1

\* C2: every transition of the table succeeds, sets the status, stamps
\* approved_at and approved_by = actor when the target is approved, and appends
\* exactly one approval record going from the previous status to the new one.
C2_TableTransitionSucceeds ==
    [][\A c \in ContentIds, u \in Users, to \in ContentStatus, g \in BOOLEAN :
         ( /\ RequestTransition(c, u, to, g)
           /\ <<RoleOf(u), contents[c].status, to>> \in TransitionTable )
         => /\ response' = OkResponse("change_status")
            /\ contents'[c].status = to
            /\ (to = "approved" =>
                   /\ contents'[c].approved_at = now
                   /\ contents'[c].approved_by = u)
            /\ Len(approvals') = Len(approvals) + 1
            /\ SubSeq(approvals', 1, Len(approvals)) = approvals
            /\ approvals'[Len(approvals')].content_id = c
            /\ approvals'[Len(approvals')].from_status = contents[c].status
            /\ approvals'[Len(approvals')].to_status = to]_vars

\* the client has approved, through the table and at time 1, content that was
\* in client_review
C2_Witness ==
    /\ contents[1].status = "approved"
    /\ contents[1].approved_by = 3
    /\ contents[1].approved_at = 1
    /\ Len(approvals) = 2
    /\ ~approvals[2].is_urgent
    /\ approvals[2].from_status = "client_review"
    /\ approvals[2].to_status = "approved"

\* C3: a manager or admin who sets is_urgent succeeds from any status other
\* than published to any target status, table or not: the status becomes the
\* target and one approval record with is_urgent = true is appended.
C3_UrgentOverrideSucceeds ==
    [][\A c \in ContentIds, u \in Users, to \in ContentStatus :
         ( /\ RequestTransition(c, u, to, TRUE)
           /\ RoleOf(u) \in {"manager", "admin"}
           /\ contents[c].status \notin {"absent", "published"} )
         => /\ response' = OkResponse("change_status")
            /\ contents'[c].status = to
            /\ Len(approvals') = Len(approvals) + 1
            /\ SubSeq(approvals', 1, Len(approvals)) = approvals
            /\ approvals'[Len(approvals')].is_urgent
            /\ approvals'[Len(approvals')].to_status = to]_vars

\* the manager has taken a draft straight to approved, which no table entry
\* allows: the state the publishing specifications start from
C3_Witness == InitP
\* ===================================================================
\* Properties of the content row under the whole system (checked under Spec)
\* ===================================================================

\* C4: no status change request ever sets a content item to published: a
\* content item enters published only in the step in which a worker completes
\* a successful publish of one of its logs.
C4_PublishedOnlyByExecute ==
    [][\A c \in ContentIds :
         (contents[c].status # "published" /\ contents'[c].status = "published")
         => \E w \in Workers, e \in BOOLEAN :
               /\ ExecuteSuccess(w, e)
               /\ worker[w].msg.content = c]_vars

\* C5: a published content item has published_at set, and an approved one
\* has approved_at and approved_by set.
C5_StatusImpliesStamps ==
    \A c \in ContentIds :
       /\ contents[c].status = "published" => contents[c].published_at # None
       /\ contents[c].status = "approved" =>
             /\ contents[c].approved_at # None
             /\ contents[c].approved_by # None

\* ===================================================================
\* Properties of the publishing service (checked under SpecS)
\* ===================================================================

\* C6: Schedule creates logs exactly when the content is approved: with N
\* account ids it appends N rows, the i-th for the i-th account id, all pending
\* with the given scheduled_at; on any other status it fails with NotApproved
\* and the table of logs is unchanged.
C6_ScheduleIffApproved ==
    [][\A c \in ContentIds, ids \in AccountLists(MaxLogs), sched \in 0..MaxNow :
         (Schedule(c, ids, sched) /\ contents[c].status # "absent")
         => IF contents[c].status = "approved"
            THEN /\ response' = Resp("schedule_publish", 201, "")
                 /\ Len(logs') = Len(logs) + Len(ids)
                 /\ SubSeq(logs', 1, Len(logs)) = logs
                 /\ \A i \in 1..Len(ids) :
                       /\ logs'[Len(logs) + i].content_id = c
                       /\ logs'[Len(logs) + i].platform_account_id = ids[i]
                       /\ logs'[Len(logs) + i].status = "pending"
                       /\ logs'[Len(logs) + i].scheduled_at = sched
            ELSE /\ response' = Resp("schedule_publish", 400, "NotApproved")
                 /\ logs' = logs]_vars

\* two pending logs, one per account, were scheduled for time 1, the content
\* was then taken out of approved, and a further Schedule has been refused
C6_Witness ==
    /\ response = Resp("schedule_publish", 400, "NotApproved")
    /\ contents[1].status # "approved"
    /\ Len(logs) = 2
    /\ logs[1].platform_account_id = 1 /\ logs[2].platform_account_id = 2
    /\ \A l \in 1..2 : logs[l].status = "pending" /\ logs[l].scheduled_at = 1

\* ===================================================================
\* Properties of the publishing task
\* ===================================================================

\* C7: an execution that finds content and account and whose platform call
\* succeeds goes through publishing and ends with the log in success with
\* platform_post_id and platform_post_url stored and published_at written once
\* (with the time of the publish, one post made), and with the content in
\* published with that same published_at.  (Checked under SpecE.)
C7_ExecuteSuccessOutcome ==
    [][/\ \A w \in Workers, m \in BagToSet(queue) :
            (ExecuteStart(w, m) /\ ~Missing(m))
            => /\ logs'[m.log].status = "publishing"
               /\ worker'[w] = [pc |-> "publishing", msg |-> m]
       /\ \A w \in Workers, e \in BOOLEAN :
            ExecuteSuccess(w, e)
            => LET m == worker[w].msg IN
               /\ logs'[m.log].status = "success"
               /\ logs'[m.log].platform_post_id = PostId(m.account, m.log)
               /\ logs'[m.log].platform_post_id # NoPost
               /\ logs'[m.log].platform_post_url # NoPost
               /\ logs'[m.log].published_at = now
               /\ CopiesIn(m.log, posts') = CopiesIn(m.log, posts) + 1
               /\ contents'[m.content].status = "published"
               /\ contents'[m.content].published_at = now
               /\ worker'[w].pc = "idle"]_vars

\* a log has been published at time 1: one post, log and content stamped 1
C7_Witness ==
    /\ Len(logs) = 1
    /\ logs[1].status = "success"
    /\ logs[1].platform_post_id = PostId(logs[1].platform_account_id, 1)
    /\ logs[1].published_at = 1
    /\ CopiesIn(1, posts) = 1
    /\ contents[1].status = "published"
    /\ contents[1].published_at = 1

\* the workers that are between their write of publishing and their final
\* write for log l
Executing(l) == {w \in Workers : worker[w].pc = "publishing" /\ worker[w].msg.log = l}

\* C8: at no time are two workers executing the same log.  (Checked under SpecC.)
C8_OneExecutionPerLog ==
    \A l \in 1..Len(logs) : Cardinality(Executing(l)) <= 1

\* the status changes a publishing log may make
LogEdges ==
    {<<"pending", "publishing">>, <<"publishing", "success">>,
     <<"publishing", "failed">>, <<"failed", "publishing">>,
     <<"pending", "cancelled">>}

\* C9: a log changes status only along pending->publishing,
\* publishing->success, publishing->failed, failed->publishing (by Retry) and
\* pending->cancelled; success and cancelled are final.  (Checked under SpecC.)
C9_LogStatusEdges ==
    [][\A l \in 1..Len(logs) :
         logs'[l].status # logs[l].status
         => /\ <<logs[l].status, logs'[l].status>> \in LogEdges
            /\ logs[l].status = "failed" => Retry(l)]_vars

\* C10: an execution that starts on a log already in success changes neither
\* the log nor the content, makes no post and ends there.  (Checked under SpecC.)
C10_ExecuteOnSuccessIsNoOp ==
    [][\A w \in Workers, m \in Messages(MaxJobs) :
         (ExecuteStart(w, m) /\ logs[m.log].status = "success")
         => /\ logs' = logs
            /\ contents' = contents
            /\ posts' = posts
            /\ worker'[w].pc = "idle"]_vars

\* ===================================================================
\* Properties of cancel, retry and the retry counter
\* ===================================================================

\* C11: Cancel succeeds only on a pending log, which becomes cancelled; on a
\* log in publishing, success, failed or cancelled it fails with InvalidState
\* and the logs are unchanged; on an unknown id it fails with NotFound.
\* (Checked under SpecC.)
C11_CancelOnlyPending ==
    [][\A l \in LogIds(MaxJobs) :
         Cancel(l)
         => IF l > Len(logs)
            THEN /\ response' = Resp("cancel_publish", 404, "NotFound")
                 /\ logs' = logs
            ELSE IF logs[l].status = "pending"
            THEN /\ response' = OkResponse("cancel_publish")
                 /\ logs' = [logs EXCEPT ![l].status = "cancelled"]
            ELSE /\ logs[l].status \in {"publishing", "success", "failed", "cancelled"}
                 /\ response' = Resp("cancel_publish", 400, "InvalidState")
                 /\ logs' = logs]_vars

\* a failed log whose cancellation has been refused
C11_Witness ==
    /\ response = Resp("cancel_publish", 400, "InvalidState")
    /\ Len(logs) = 1
    /\ logs[1].status = "failed"
    /\ logs[1].error_message \in Errors

\* C12: Retry succeeds only on a failed log: status becomes publishing,
\* retry_count grows by exactly 1, error_message is cleared and nothing else
\* of the log changes; on a log in any other status it fails with InvalidState
\* and the logs are unchanged.  (Checked under SpecC.)
C12_RetryOnlyFailed ==
    [][\A l \in 1..Len(logs) :
         Retry(l)
         => IF logs[l].status = "failed"
            THEN /\ response' = OkResponse("retry_publish")
                 /\ logs' = [logs EXCEPT ![l].status = "publishing",
                                         ![l].retry_count = logs[l].retry_count + 1,
                                         ![l].error_message = NoText]
            ELSE /\ response' = Resp("retry_publish", 400, "InvalidState")
                 /\ logs' = logs]_vars

\* a log that failed once has been retried: the failure and the retry have
\* each counted, and the error message is gone
C12_Witness ==
    /\ response = OkResponse("retry_publish")
    /\ Len(logs) = 1
    /\ logs[1].status = "publishing"
    /\ logs[1].retry_count = 2
    /\ logs[1].error_message = NoText
    /\ failures = 1

\* C13: with the scan, the workers and the running tasks scheduled fairly,
\* every log in publishing eventually reaches success or failed.
\* (Checked under SpecL.)
C13_PublishingEventuallyEnds ==
    \A l \in 1..MaxJobs :
       (Len(logs) >= l /\ logs[l].status = "publishing")
       ~> (Len(logs) >= l /\ logs[l].status \in {"success", "failed"})

\* C14: retry_count changes only in a step that takes the log from failed to
\* publishing, and there it grows by exactly 1.  (Checked under SpecC.)
C14_RetryCountOnlyOnReattempt ==
    [][\A l \in 1..Len(logs) :
         logs'[l].retry_count # logs[l].retry_count
         => /\ logs[l].status = "failed"
            /\ logs'[l].status = "publishing"
            /\ logs'[l].retry_count = logs[l].retry_count + 1]_vars

\* C15: when the platform call fails with the permanent error, the log ends
\* failed with that error stored, retry_count unchanged and no further attempt
\* sent to the broker; a publish that succeeds ends with the log in success
\* and the content published.  (Checked under SpecE.)
C15_PermanentErrorNotRetried ==
    [][/\ \A w \in Workers :
            ExecuteFailure(w, "400 Bad Request")
            => LET m == worker[w].msg IN
               /\ logs'[m.log].status = "failed"
               /\ logs'[m.log].error_message = "400 Bad Request"
               /\ logs'[m.log].retry_count = logs[m.log].retry_count
               /\ queue' = queue
       /\ \A w \in Workers, e \in BOOLEAN :
            ExecuteSuccess(w, e)
            => LET m == worker[w].msg IN
               /\ logs'[m.log].status = "success"
               /\ contents'[m.content].status = "published"]_vars

\* ===================================================================
\* Properties of the circuit breaker (checked under SpecB)
\* ===================================================================

\* C16: a closed breaker opens exactly in the step that records the
\* failure_threshold-th consecutive failure (no success recorded in between),
\* and that step records last_failure_time; a success recorded while closed
\* resets failure_count to 0 and leaves the breaker closed; while closed,
\* failure_count is the number of consecutive failures and is below the
\* threshold.
C16_OpensAtThreshold ==
    [][/\ cb.state = "closed"
          => /\ cb.failure_count = streak
             /\ streak < cb.failure_threshold
       /\ \A k \in Callers :
            (CallRaise(k) /\ cb.state = "closed")
            => /\ cb'.state = "open" <=> streak' = cb.failure_threshold
               /\ cb'.state \in {"open", "closed"}
               /\ cb'.state = "open" => cb'.last_failure_time = now
       /\ \A k \in Callers :
            (CallReturn(k) /\ cb.state = "closed")
            => /\ cb'.failure_count = 0
               /\ cb'.state = "closed"
       /\ (cb.state = "closed" /\ cb'.state = "open")
            => \E k \in Callers : CallRaise(k)]_vars

\* with a threshold of 2, a failure, a success and two more failures in a row
\* (the last at time 1) have opened the breaker
C16_Witness ==
    /\ cb.failure_threshold = 2
    /\ cb.state = "open"
    /\ cb.failure_count = 2
    /\ streak = 2
    /\ cb.last_failure_time = 1
    /\ calls[1].outcome = "result"
    /\ calls[2].outcome = "exc"

\* C17: a call that arrives while the breaker is open and less than
\* open_timeout has elapsed since last_failure_time ends at once with
\* CircuitOpenError, the wrapped function is not started, and the breaker
\* (state, failure_count, last_failure_time) is unchanged.
C17_OpenRejects ==
    [][\A k \in Callers :
         (/\ CallBegin(k)
          /\ cb.state = "open"
          /\ now - cb.last_failure_time < cb.open_timeout)
         => /\ calls'[k].pc = "idle"
            /\ calls'[k].outcome = "CircuitOpenError"
            /\ cb' = cb
            /\ streak' = streak]_vars

\* a call has been rejected at time 1 by a breaker that opened at time 0 with
\* a timeout of 2
C17_Witness ==
    /\ cb.state = "open"
    /\ cb.open_timeout = 2
    /\ cb.last_failure_time = 0
    /\ now = 1
    /\ \E k \in Callers :
          /\ calls[k].outcome = "CircuitOpenError"
          /\ calls[k].ended = 1
          /\ calls[k].pc = "idle"

\* C18: the first call that arrives at an open breaker once open_timeout has
\* elapsed since last_failure_time is admitted and makes the breaker
\* half_open; when that call succeeds the breaker is closed with
\* failure_count = 0 and the caller has the result.
C18_TrialSuccessCloses ==
    [][/\ \A k \in Callers :
            (/\ CallBegin(k)
             /\ cb.state = "open"
             /\ now - cb.last_failure_time >= cb.open_timeout)
            => /\ calls'[k].pc = "running"
               /\ calls'[k].trial
               /\ cb'.state = "half_open"
       /\ \A k \in Callers :
            (CallReturn(k) /\ calls[k].trial)
            => /\ cb'.state = "closed"
               /\ cb'.failure_count = 0
               /\ calls'[k].outcome = "result"]_vars

\* C19: when the trial call fails, the breaker is open again with
\* last_failure_time set to the time of that failure and the caller has the
\* error of the operation; from then on every call is rejected with
\* CircuitOpenError until open_timeout has elapsed since that failure.
C19_TrialFailureReopens ==
    [][/\ \A k \in Callers :
            (CallRaise(k) /\ calls[k].trial)
            => /\ cb'.state = "open"
               /\ cb'.last_failure_time = now
               /\ calls'[k].outcome = "exc"
       /\ \A k, j \in Callers :
            (/\ CallBegin(k)
             /\ calls[j].pc = "idle" /\ calls[j].trial /\ calls[j].outcome = "exc"
             /\ now - calls[j].ended < cb.open_timeout)
            => /\ calls'[k].pc = "idle"
               /\ calls'[k].outcome = "CircuitOpenError"]_vars

\* ===================================================================
\* Properties of retry_with_backoff (checked under SpecR)
\* ===================================================================

\* C20: the wrapped function is invoked at most max_retries + 1 times; a run
\* that ends with a retryable error (so every attempt failed with one) has
\* invoked it exactly max_retries + 1 times, slept max_retries times and
\* raises the last error; a run in which an attempt succeeds returns the
\* result of that attempt, which is the last invocation.
C20_AtMostMaxRetriesPlusOne ==
    /\ rb.invoked <= rb.max_retries + 1
    /\ (/\ rb.pc = "raised"
        /\ rb.raised.exc = "HTTPStatusError"
        /\ rb.raised.status_code \in RETRYABLE_STATUS_CODES)
       => /\ rb.invoked = rb.max_retries + 1
          /\ Len(rb.slept) = rb.max_retries
          /\ rb.raised = rb.last_exc
    /\ rb.pc = "returned"
       => /\ rb.returned = rb.attempt
          /\ rb.invoked = rb.attempt + 1
          /\ rb.raised = NoExc
    /\ rb.pc \in {"calling", "sleeping"}
       => /\ rb.returned = None
          /\ rb.raised = NoExc
          /\ rb.invoked = rb.attempt + (IF rb.pc = "sleeping" THEN 1 ELSE 0)

\* with max_retries = 3, four invocations have failed with 503 and the run
\* has raised after sleeping 1, 2 and 4
C20_Witness ==
    /\ rb.pc = "raised"
    /\ rb.max_retries = 3
    /\ rb.invoked = 4
    /\ rb.slept = <<1, 2, 4>>
    /\ rb.raised = HTTPStatusError(503)

\* C21: after an invocation that fails, another invocation follows exactly
\* when the failure is transient (a network error or an HTTP status in
\* {429, 500, 502, 503, 504}) and fewer than max_retries retries have been
\* made; any other failure is raised after that invocation.
C21_RetriesIffTransient ==
    [][\A o \in Outcomes \ {NoExc} :
         Invoke(o)
         => /\ (rb'.pc = "sleeping")
               <=> ((o = ConnectError
                       \/ (o.exc = "HTTPStatusError"
                             /\ o.status_code \in {429, 500, 502, 503, 504}))
                     /\ rb.attempt < rb.max_retries)
            /\ rb'.pc \in {"sleeping", "raised"}
            /\ (rb'.pc = "raised") => (rb'.raised = o)]_vars

\* C23: PublishNow creates logs exactly when the content is approved: with N
\* account ids it appends N rows, the i-th for the i-th account id, all in
\* publishing with no scheduled_at; on any other status it fails with
\* NotApproved and the table of logs is unchanged.  (Checked under SpecS.)
C23_PublishNowIffApproved ==
    [][\A c \in ContentIds, ids \in AccountLists(MaxLogs) :
         (PublishNow(c, ids) /\ contents[c].status # "absent")
         => IF contents[c].status = "approved"
            THEN /\ response' = Resp("publish_now", 201, "")
                 /\ Len(logs') = Len(logs) + Len(ids)
                 /\ SubSeq(logs', 1, Len(logs)) = logs
                 /\ \A i \in 1..Len(ids) :
                       /\ logs'[Len(logs) + i].content_id = c
                       /\ logs'[Len(logs) + i].platform_account_id = ids[i]
                       /\ logs'[Len(logs) + i].status = "publishing"
                       /\ logs'[Len(logs) + i].scheduled_at = None
                       /\ logs'[Len(logs) + i].retry_count = 0
            ELSE /\ response' = Resp("publish_now", 400, "NotApproved")
                 /\ logs' = logs]_vars

\* PublishNow with the account ids <<2, 1>> has just created two logs in
\* publishing, in that order, neither with a scheduled_at
C23_Witness ==
    /\ response = Resp("publish_now", 201, "")
    /\ contents[1].status = "approved"
    /\ Len(logs) = 2
    /\ logs[1].platform_account_id = 2 /\ logs[2].platform_account_id = 1
    /\ \A l \in 1..2 : logs[l].status = "publishing" /\ logs[l].scheduled_at = None

\* C26: a scan enqueues one execution (a message with retries = 0) for a log
\* exactly when the log is pending with scheduled_at at or before now, enqueues
\* nothing else, and changes no log, no content and no worker: logs dated in
\* the future and logs in publishing, success, failed or cancelled are not
\* dispatched.  (Checked under SpecC.)
C26_ScanDispatchesDuePending ==
    [][ScanScheduledPosts
       => /\ logs' = logs /\ contents' = contents /\ worker' = worker
          /\ \A l \in 1..Len(logs) :
                LET m == [log |-> l, content |-> logs[l].content_id,
                          account |-> logs[l].platform_account_id, retries |-> 0]
                    due == /\ logs[l].status = "pending"
                           /\ logs[l].scheduled_at # None
                           /\ logs[l].scheduled_at <= now
                IN  CopiesIn(m, queue') = CopiesIn(m, queue) + (IF due THEN 1 ELSE 0)
          /\ \A m \in BagToSet(queue') :
                m.retries # 0 => CopiesIn(m, queue') = CopiesIn(m, queue)]_vars

\* the scan at time 1 has dispatched the log scheduled for time 1, which is
\* still pending because no worker has taken the message yet
C26_Witness ==
    /\ now = 1
    /\ Len(logs) = 1
    /\ logs[1].status = "pending" /\ logs[1].scheduled_at = 1
    /\ CopiesIn(Message(1, 0), queue) = 1
    /\ \A w \in Workers : worker[w].pc = "idle"

\* C27: while the breaker is half_open and the trial call it admitted is still
\* running, a further call is rejected with CircuitOpenError and does not
\* start the wrapped function.  (Checked under SpecB.)
C27_HalfOpenSingleTrial ==
    [][\A k \in Callers :
         (/\ CallBegin(k)
          /\ cb.state = "half_open"
          /\ \E j \in Callers \ {k} : calls[j].pc = "running" /\ calls[j].trial)
         => /\ calls'[k].pc = "idle"
            /\ calls'[k].outcome = "CircuitOpenError"]_vars

C24_WitnessContent ==
    /\ Len(logs) = 1
    /\ logs[1].status = "failed"
    /\ logs[1].error_message = "Content or account not found"
    /\ logs[1].platform_account_id \in accounts
    /\ contents[1].status = "absent"
    /\ posts = EmptyBag

\* C30: an execution that completes sets the content to published only when
\* the content is approved at that moment; a content that has left approved
\* since its logs were scheduled (rejected, draft, review, client_review)
\* keeps its status.  (Checked under Spec.)
C30_PublishedOnlyFromApproved ==
    [][\A w \in Workers, e \in BOOLEAN :
         ExecuteSuccess(w, e)
         => LET c == worker[w].msg.content
            IN  contents[c].status \notin {"approved", "published"}
                => contents'[c].status = contents[c].status]_vars

\* C25: while every platform call fails with the transient error, a
\* dispatched execution is attempted at most max_retries + 1 times: no
\* message ever carries more than max_retries retries, and the attempt made
\* with retries = max_retries enqueues no further one.  Every failed attempt
\* leaves the log failed with the error message of that attempt and one more
\* in retry_count, makes no post, and leaves the content approved.
\* (Checked under SpecD.)
C25_RetriesEndInFailed ==
    /\ [](/\ \A m \in BagToSet(queue) : m.retries <= max_retries
          /\ \A w \in Workers : worker[w].pc = "publishing" => worker[w].msg.retries <= max_retries
          /\ \A c \in ContentIds : contents[c].status = "approved"
          /\ posts = EmptyBag)
    /\ [][\A w \in Workers :
            ExecuteFailure(w, "503 Service Unavailable")
            => LET m == worker[w].msg
               IN  /\ logs'[m.log].status = "failed"
                   /\ logs'[m.log].error_message = "503 Service Unavailable"
                   /\ logs'[m.log].retry_count = logs[m.log].retry_count + 1
                   /\ contents' = contents
                   /\ IF m.retries < max_retries
                      THEN queue' = queue (+) SetToBag({[m EXCEPT !.retries = m.retries + 1]})
                      ELSE queue' = queue]_vars

\* one dispatch of the log has been attempted max_retries + 1 = 4 times and
\* nothing is left to run: the log is failed with the last error and
\* retry_count 4, and the content is still approved
C25_Witness ==
    /\ failures = max_retries + 1
    /\ queue = EmptyBag
    /\ \A w \in Workers : worker[w].pc = "idle"
    /\ Len(logs) = 1
    /\ logs[1].status = "failed"
    /\ logs[1].error_message = "503 Service Unavailable"
    /\ logs[1].retry_count = max_retries + 1
    /\ contents[1].status = "approved"
    /\ posts = EmptyBag

\* the number of record calls for platform p among history[1..i] that were
\* made less than an hour before time t and after the last reset of p
RECURSIVE C22_Recorded(_, _, _)
C22_Recorded(i, p, t) ==
    IF i = 0 THEN 0
    ELSE LET h == history[i]
             later == {j \in (i + 1)..Len(history) :
                          history[j].op = "reset" /\ history[j].platform = p}
         IN  C22_Recorded(i - 1, p, t)
             + (IF h.op = "record" /\ h.platform = p /\ t - h.at < 3600 /\ later = {}
                THEN h.n ELSE 0)

\* C22: check(platform) returns true exactly when the number of record calls
\* made for the platform within the last hour is below the budget of the
\* platform (200 for instagram and facebook, 10000 for youtube, 1000 for a
\* platform that is not configured); check itself records nothing: it adds no
\* timestamp for any platform.  The records counted are those made since the
\* last reset(platform), the method that discards them.  (Checked under SpecT.)
C22_CheckIffUnderBudget ==
    [][\A p \in Platforms :
         check(p)
         => LET budget == CASE p \in {"instagram", "facebook"} -> 200
                            [] p = "youtube" -> 10000
                            [] OTHER -> 1000
            IN  /\ checked'.platform = p
                /\ checked'.allowed <=> (C22_Recorded(Len(history), p, now) < budget)
                /\ history' = history
                /\ \A q \in Platforms : \A x \in BagToSet(rl'[q]) :
                      CopiesIn(x, rl'[q]) <= CopiesIn(x, rl[q])
                /\ \A q \in Platforms \ {p} : rl'[q] = rl[q]]_vars

\* 199 and then 1 record calls for instagram within the hour, no reset, and
\* check has answered false; the 200 timestamps are still held
C22_Witness ==
    /\ checked = [platform |-> "instagram", allowed |-> FALSE]
    /\ Len(history) = 2
    /\ \A i \in 1..2 : history[i].op = "record" /\ history[i].platform = "instagram"
    /\ history[1].n + history[2].n = 200
    /\ now - history[1].at < 3600
    /\ BagCardinality(rl["instagram"]) = 200

\* C29: whether the notification reaches Redis or the emit raises, an
\* execution whose platform call succeeded ends the same way: the log in
\* success with its platform_post_id and the retry_count it had, the content
\* published, one post made and no message enqueued for another attempt; only
\* the set of notifications delivered differs.  (Checked under SpecE.)
C29_EmitFailureChangesNothing ==
    [][\A w \in Workers, emit_ok \in BOOLEAN :
         ExecuteSuccess(w, emit_ok)
         => LET m == worker[w].msg
            IN  /\ logs'[m.log].status = "success"
                /\ logs'[m.log].platform_post_id = <<"mock", PlatformOf(m.account), m.log>>
                /\ logs'[m.log].retry_count = logs[m.log].retry_count
                /\ logs'[m.log].error_message = logs[m.log].error_message
                /\ contents'[m.content].status = "published"
                /\ posts' = posts (+) SetToBag({m.log})
                /\ queue' = queue
                /\ failures' = failures
                /\ (m.log \in events') <=> (emit_ok \/ m.log \in events)]_vars

\* the emit of a first execution that succeeded was lost: the log is in
\* success with a post id and no retry counted, the content is published,
\* nothing is queued, and no notification was delivered
C29_Witness ==
    /\ Len(logs) = 1
    /\ logs[1].status = "success"
    /\ logs[1].platform_post_id # NoPost
    /\ logs[1].retry_count = 0
    /\ contents[1].status = "published"
    /\ events = {}
    /\ queue = EmptyBag
    /\ failures = 0
    /\ \A w \in Workers : worker[w].pc = "idle"

====
